---- MODULE Spec2Model ----
(***************************************************************************)
(* Model of src/chat.py: the outline parser (parse_chapters_file), the     *)
(* SQLite ledger helpers, the remote publisher call and the main loop that *)
(* walks the outline and materializes every chapter that is not yet in the *)
(* ledger.  A run is a process; its local variables are the fields of      *)
(* run[r].  The ledger (tables chapters and messages) and the remote store *)
(* are shared by all runs.                                                 *)
(***************************************************************************)
EXTENDS Integers, Sequences, FiniteSets, TLC

VARIABLES
    file,       \* the lines of CHAPTERS_FILE, each a sequence of code points
    chapters,   \* SQLite table chapters: row k has id k (AUTOINCREMENT, no delete)
    messages,   \* SQLite table messages, in insertion order
    remote,     \* rows the PHP API inserted in the remote MySQL table
    run,        \* run[r]: the local variables of process r of chat.py
    runs,       \* number of processes started so far
    clock       \* int(time.time()) as the latest process read it (0: none yet)

vars == <<file, chapters, messages, remote, run, runs, clock>>

----------------------------------------------------------------------------
(* Bounds of the model *)

MaxLines == 2       \* lines of an enumerated outline file
MaxLevel == 1       \* deepest level of an enumerated line is MaxLevel + 1
MaxRuns == 2        \* processes started one after the other
MaxLineLen == 2     \* characters of a line of a file given to the parser alone
MaxParseLines == 2  \* lines of a file given to the parser alone
MaxConcLines == 1   \* lines of a file given to two interleaved processes

----------------------------------------------------------------------------
(* Values *)

\* Python None for Optional[int]; SQLite and MySQL ids start at 1.
None == 0

\* A character is its code point, ord(c).
Marker == 35    \* "#"

\* The characters str.strip() removes: those for which str.isspace() holds
\* (\t \n \x0b \x0c \r, \x1c-\x1f, space, \x85, \xa0, U+1680, U+2000-U+200A,
\* U+2028, U+2029, U+202F, U+205F, U+3000).
Whitespace ==
    (9..13) \cup (28..32) \cup {133, 160, 5760} \cup (8192..8202)
        \cup {8232, 8233, 8239, 8287, 12288}

\* The code points UTF-8 cannot encode (U+D800-U+DFFF): sqlite3 raises
\* UnicodeEncodeError when a str parameter holds one.
Surrogates == 55296..57343

Encodable(s) == \A k \in DOMAIN s : s[k] \notin Surrogates

Runners == {1, 2}

\* One runner at a time.
Sequential == {1}

Max(S) == CHOOSE x \in S : \A y \in S : y <= x

Min2(a, b) == IF a <= b THEN a ELSE b

----------------------------------------------------------------------------
(* parse_chapters_file *)

RECURSIVE lstrip(_)
lstrip(s) ==
    IF s = <<>> THEN s
    ELSE IF Head(s) \in Whitespace THEN lstrip(Tail(s)) ELSE s

RECURSIVE rstrip(_)
rstrip(s) ==
    IF s = <<>> THEN s
    ELSE IF s[Len(s)] \in Whitespace THEN rstrip(SubSeq(s, 1, Len(s) - 1)) ELSE s

strip(s) == rstrip(lstrip(s))

\* while level < len(line) and line[level] == "#": level += 1
RECURSIVE CountMarkers(_, _)
CountMarkers(line, level) ==
    IF level < Len(line) /\ line[level + 1] = Marker
    THEN CountMarkers(line, level + 1)
    ELSE level

startswith_marker(line) == Len(line) >= 1 /\ line[1] = Marker

\* Variant: the title is the rest of the line as it stands, not stripped.
ParseLine_no_strip(line) ==
    LET level == CountMarkers(line, 0)
    IN  [level |-> level - 1, title |-> SubSeq(line, level + 1, Len(line))]

\* One yielded pair (level - 1, title) of a stripped line that starts with "#".
ParseLine(line) ==
    LET level == CountMarkers(line, 0)
    IN  [level |-> level - 1, title |-> strip(SubSeq(line, level + 1, Len(line)))]

\* Variant: a line without the marker is passed over instead of raising.
RECURSIVE ParseFrom_skip_bad(_, _)
ParseFrom_skip_bad(lines, acc) ==
    IF lines = <<>> THEN [ok |-> TRUE, entries |-> acc, line |-> <<>>]
    ELSE LET line == strip(Head(lines))
         IN  IF line = <<>> \/ ~startswith_marker(line)
             THEN ParseFrom_skip_bad(Tail(lines), acc)
             ELSE ParseFrom_skip_bad(Tail(lines), Append(acc, ParseLine(line)))

\* The generator, consumed by list(): the entries yielded so far are lost when
\* a line raises ValueError.
RECURSIVE ParseFrom(_, _)
ParseFrom(lines, acc) ==
    IF lines = <<>> THEN [ok |-> TRUE, entries |-> acc, line |-> <<>>]
    ELSE LET line == strip(Head(lines))
         IN  IF line = <<>> THEN ParseFrom(Tail(lines), acc)
             ELSE IF ~startswith_marker(line)
                  THEN [ok |-> FALSE, entries |-> <<>>, line |-> line]
                  ELSE ParseFrom(Tail(lines), Append(acc, ParseLine(line)))

parse_chapters_file(lines) == ParseFrom(lines, <<>>)

----------------------------------------------------------------------------
(* SQLite helpers *)

\* Variant: the SELECT keeps only the rows that have no remote id yet.
get_existing_unpublished(chs) ==
    [t \in {chs[k].original_title : k \in {j \in DOMAIN chs : chs[j].remote_id = None}} |->
        chs[Max({k \in DOMAIN chs : chs[k].original_title = t})]]

\* title -> info dict; a later row with the same original_title overwrites an
\* earlier one.
get_existing_sqlite_chapters(chs) ==
    [t \in {chs[k].original_title : k \in DOMAIN chs} |->
        chs[Max({k \in DOMAIN chs : chs[k].original_title = t})]]

\* Variant: SELECT COALESCE(MAX(position), 0), the start is not one past the
\* maximum.
get_next_position_at_max(chs) ==
    IF chs = <<>> THEN 0 ELSE Max({chs[k].position : k \in DOMAIN chs})

\* SELECT COALESCE(MAX(position) + 1, 0) FROM chapters
get_next_sqlite_position_start(chs) ==
    IF chs = <<>> THEN 0 ELSE Max({chs[k].position : k \in DOMAIN chs}) + 1

\* INSERT INTO chapters ... VALUES (?, ?, ?, ?, ?, ?, NULL); returns lastrowid.
create_sqlite_chapter(chs, chat_id, chapter_title, level, parent_id, position) ==
    Append(chs, [id |-> Len(chs) + 1,
                 chat_id |-> chat_id,
                 original_title |-> chapter_title,
                 title |-> chapter_title,
                 level |-> level,
                 parent_id |-> parent_id,
                 position |-> position,
                 remote_id |-> None])

\* UPDATE chapters SET remote_id = ? WHERE id = ?
update_sqlite_chapter_remote_id(chs, chapter_id, remote_id) ==
    [k \in DOMAIN chs |->
        IF chs[k].id = chapter_id THEN [chs[k] EXCEPT !.remote_id = remote_id]
        ELSE chs[k]]

save_sqlite_message(msgs, chat_id, chapter_id, role, content) ==
    Append(msgs, [chat_id |-> chat_id, chapter_id |-> chapter_id,
                  role |-> role, content |-> content])

----------------------------------------------------------------------------
(* Remote PHP API *)

\* A successful POST: the API inserts the chapter and answers with its id.
create_remote_chapter(rem, title, parent_remote_id, position, content) ==
    Append(rem, [id |-> Len(rem) + 1,
                 name |-> title,
                 title |-> title,
                 parent_id |-> parent_remote_id,
                 position |-> position,
                 content |-> content])

\* What makes create_remote_chapter raise: the transport or raise_for_status
\* (RequestException), an answer without "success" (RuntimeError), an answer
\* that is no JSON object (AttributeError at data.get), an answer without
\* chapter_id (KeyError) or with one that int() rejects: a string that is no
\* number (ValueError), null or a list (TypeError), 1e999 read as inf
\* (OverflowError).
PublishErrors ==
    {"RequestException", "RuntimeError", "AttributeError", "KeyError",
     "ValueError", "TypeError", "OverflowError"}

\* Whether the server has stored the chapter when the call raises: a
\* connection error or an error status comes without the row, a read timeout
\* after it; the errors of data["chapter_id"] and int() come from an answer
\* with "success"; a body that resp.json() cannot decode (ValueError) comes
\* from whatever answered, with the row or without.
StoredOnError(error) ==
    IF error \in {"RequestException", "ValueError"} THEN {TRUE, FALSE}
    ELSE IF error \in {"KeyError", "TypeError", "OverflowError"} THEN {TRUE}
    ELSE {FALSE}

----------------------------------------------------------------------------
(* OpenAI interaction *)

\* message.content of the answer when it is a string: " t", " ", "t\r\n" and
\* a lone surrogate "\ud800".
ModelOutputs == {<<32, 116>>, <<32>>, <<116, 13, 10>>, <<55296>>}

\* What makes generate_chapter_text raise: the API call, content None (None
\* has no strip), an empty choices list (choices[0]), or an answer whose
\* choices is None (None is not subscriptable).
GenerateErrors == {"OpenAIError", "AttributeError", "IndexError", "TypeError"}

generate_chapter_text(content) == strip(content)

----------------------------------------------------------------------------
(* Main: the hierarchy stack *)

\* Variant: the stack is never cut.
PopToLevel_none(level_stack, level) == level_stack

\* while len(level_stack) > level + 1: level_stack.pop()
PopToLevel(level_stack, level) ==
    SubSeq(level_stack, 1, Min2(Len(level_stack), level + 1))

NoEntry == [title |-> <<>>, sqlite_id |-> None, remote_id |-> None]

\* Variant: the parent is the top of the stack, level_stack[-1].
ParentEntry_top(level_stack, level) ==
    IF level > 0 /\ Len(level_stack) >= level
    THEN level_stack[Len(level_stack)] ELSE NoEntry

\* if level > 0 and len(level_stack) >= level: parent_entry = level_stack[level - 1]
\* (Python index level - 1 is index level here); otherwise both parents stay None.
ParentEntry(level_stack, level) ==
    IF level > 0 /\ Len(level_stack) >= level THEN level_stack[level] ELSE NoEntry

\* if len(level_stack) == level: append, else level_stack[level] = entry, which
\* raises IndexError when level > len(level_stack).
CanSetLevel(level_stack, level) == level <= Len(level_stack)

SetLevel(level_stack, level, entry) ==
    IF Len(level_stack) = level THEN Append(level_stack, entry)
    ELSE [level_stack EXCEPT ![level + 1] = entry]

\* Variant: the entry of a skipped chapter forgets the remote id.
ExistingEntry_no_remote(chapter_title, existing) ==
    [title |-> chapter_title, sqlite_id |-> existing.id, remote_id |-> None]

\* The stack entry of a skipped chapter, from its info dict.
ExistingEntry(chapter_title, existing) ==
    [title |-> chapter_title, sqlite_id |-> existing.id,
     remote_id |-> existing.remote_id]

\* Variant: the in-memory map is not extended.
ExtendExisting_forgets(old, chapter_title, info) == old

\* existing_sqlite_chapters[chapter_title] = {...}
ExtendExisting(old, chapter_title, info) ==
    [t \in DOMAIN old \cup {chapter_title} |->
        IF t = chapter_title THEN info ELSE old[t]]

\* [entry["title"] for entry in level_stack[:level]] + [chapter_title]
PathTitles(level_stack, level, chapter_title) ==
    LET n == Min2(level, Len(level_stack))
    IN  Append([k \in 1..n |-> level_stack[k].title], chapter_title)

----------------------------------------------------------------------------
(* Processes *)

IdleRun ==
    [pc |-> "idle", error |-> "", prev |-> "idle", chat_id |-> 0,
     bad_line |-> <<>>, outline_list |-> <<>>,
     existing_sqlite_chapters |-> <<>>, start_len |-> 0,
     position_counter |-> 0, level_stack |-> <<>>, i |-> 1,
     parent_sqlite_id |-> None, parent_remote_id |-> None,
     path_titles |-> <<>>, chapter_text |-> <<>>, sqlite_chapter_id |-> None,
     remote_chapter_id |-> None, log |-> <<>>]

Stopped(r) == run[r].pc \in {"idle", "done", "failed"}

\* CHAT_ID = int(time.time()): the first process reads second 1, a later one
\* the second of the process before it or the next.
Now == IF runs = 0 THEN {1} ELSE {clock, clock + 1}

InLoop(r) == run[r].pc = "loop" /\ run[r].i <= Len(run[r].outline_list)

Cur(r) == run[r].outline_list[run[r].i]

Known(r) == Cur(r).title \in DOMAIN run[r].existing_sqlite_chapters

Event(op, r, stack, ok) ==
    [op |-> op, i |-> run[r].i, title |-> Cur(r).title, level |-> Cur(r).level,
     parent_sqlite_id |-> ParentEntry(stack, Cur(r).level).sqlite_id,
     parent_remote_id |-> ParentEntry(stack, Cur(r).level).remote_id,
     ok |-> ok]

\* Variant: the error is caught and the loop goes on with the next entry.
Fail_as_skip(rec, error) == [rec EXCEPT !.pc = "loop", !.error = error, !.i = @ + 1]

Fail(rec, error) == [rec EXCEPT !.pc = "failed", !.error = error]

\* A new process: CHAT_ID is read at import, init_sqlite_db finds the tables.
Begin(r) ==
    /\ Stopped(r)
    /\ runs < MaxRuns
    /\ \E t \in Now :
          /\ run' = [run EXCEPT ![r] =
                       [IdleRun EXCEPT !.pc = "started",
                                       !.prev = run[r].pc,
                                       !.chat_id = t]]
          /\ clock' = t
    /\ runs' = runs + 1
    /\ UNCHANGED <<file, chapters, messages, remote>>

\* outline_list = list(parse_chapters_file(CHAPTERS_FILE))
Parse(r) ==
    /\ run[r].pc = "started"
    /\ parse_chapters_file(file).ok
    /\ run' = [run EXCEPT ![r].pc = "parsed",
                          ![r].outline_list = parse_chapters_file(file).entries]
    /\ UNCHANGED <<file, chapters, messages, remote, runs, clock>>

\* list(parse_chapters_file(...)) raises ValueError on the first bad line.
ParseError(r) ==
    /\ run[r].pc = "started"
    /\ ~parse_chapters_file(file).ok
    /\ run' = [run EXCEPT ![r] =
                 Fail([run[r] EXCEPT !.bad_line = parse_chapters_file(file).line],
                      "ValueError")]
    /\ UNCHANGED <<file, chapters, messages, remote, runs, clock>>

\* existing_sqlite_chapters = get_existing_sqlite_chapters()
LoadExisting(r) ==
    /\ run[r].pc = "parsed"
    /\ run' = [run EXCEPT ![r].pc = "loaded",
                          ![r].existing_sqlite_chapters =
                              get_existing_sqlite_chapters(chapters),
                          ![r].start_len = Len(chapters)]
    /\ UNCHANGED <<file, chapters, messages, remote, runs, clock>>

GetNextPosition(r) ==
    /\ run[r].pc = "loaded"
    /\ run' = [run EXCEPT ![r].pc = "loop",
                          ![r].position_counter =
                              get_next_sqlite_position_start(chapters)]
    /\ UNCHANGED <<file, chapters, messages, remote, runs, clock>>

\* Variant: a skipped chapter takes a position too.
SkipChapter_counts(r) ==
    /\ InLoop(r)
    /\ Known(r)
    /\ LET level == Cur(r).level
           stack == PopToLevel(run[r].level_stack, level)
           existing == run[r].existing_sqlite_chapters[Cur(r).title]
           entry == ExistingEntry(Cur(r).title, existing)
           rec == [run[r] EXCEPT
                     !.parent_sqlite_id = ParentEntry(stack, level).sqlite_id,
                     !.parent_remote_id = ParentEntry(stack, level).remote_id,
                     !.position_counter = @ + 1,
                     !.log = Append(@, Event("Skip", r, stack, TRUE))]
       IN  run' = [run EXCEPT ![r] =
                     IF CanSetLevel(stack, level)
                     THEN [rec EXCEPT !.level_stack = SetLevel(stack, level, entry),
                                      !.i = @ + 1]
                     ELSE Fail([rec EXCEPT !.level_stack = stack], "IndexError")]
    /\ UNCHANGED <<file, chapters, messages, remote, runs, clock>>

\* The title is in existing_sqlite_chapters: its entry goes on the stack.
SkipChapter(r) ==
    /\ InLoop(r)
    /\ Known(r)
    /\ LET level == Cur(r).level
           stack == PopToLevel(run[r].level_stack, level)
           existing == run[r].existing_sqlite_chapters[Cur(r).title]
           entry == ExistingEntry(Cur(r).title, existing)
           rec == [run[r] EXCEPT
                     !.parent_sqlite_id = ParentEntry(stack, level).sqlite_id,
                     !.parent_remote_id = ParentEntry(stack, level).remote_id,
                     !.log = Append(@, Event("Skip", r, stack, TRUE))]
       IN  run' = [run EXCEPT ![r] =
                     IF CanSetLevel(stack, level)
                     THEN [rec EXCEPT !.level_stack = SetLevel(stack, level, entry),
                                      !.i = @ + 1]
                     ELSE Fail([rec EXCEPT !.level_stack = stack], "IndexError")]
    /\ UNCHANGED <<file, chapters, messages, remote, runs, clock>>

\* A new title: the stack is cut, the parent resolved, the text generated.
GenerateOk(r) ==
    /\ InLoop(r)
    /\ ~Known(r)
    /\ \E content \in ModelOutputs :
         LET level == Cur(r).level
             stack == PopToLevel(run[r].level_stack, level)
         IN  run' = [run EXCEPT
                       ![r].level_stack = stack,
                       ![r].parent_sqlite_id = ParentEntry(stack, level).sqlite_id,
                       ![r].parent_remote_id = ParentEntry(stack, level).remote_id,
                       ![r].path_titles = PathTitles(stack, level, Cur(r).title),
                       ![r].chapter_text = generate_chapter_text(content),
                       ![r].pc = "generated",
                       ![r].log = Append(@, Event("Generate", r, stack, TRUE))]
    /\ UNCHANGED <<file, chapters, messages, remote, runs, clock>>

\* Variant: the local insert is done before the text is generated.
GenerateFail_after_insert(r) ==
    /\ InLoop(r)
    /\ ~Known(r)
    /\ chapters' = create_sqlite_chapter(
                       chapters, run[r].chat_id, Cur(r).title, Cur(r).level,
                       ParentEntry(PopToLevel(run[r].level_stack, Cur(r).level),
                                   Cur(r).level).sqlite_id,
                       run[r].position_counter)
    /\ \E error \in GenerateErrors :
         LET level == Cur(r).level
             stack == PopToLevel(run[r].level_stack, level)
         IN  run' = [run EXCEPT ![r] =
                       Fail([run[r] EXCEPT
                               !.level_stack = stack,
                               !.log = Append(@, Event("Generate", r, stack, FALSE))],
                            error)]
    /\ UNCHANGED <<file, messages, remote, runs, clock>>

GenerateFail(r) ==
    /\ InLoop(r)
    /\ ~Known(r)
    /\ \E error \in GenerateErrors :
         LET level == Cur(r).level
             stack == PopToLevel(run[r].level_stack, level)
         IN  run' = [run EXCEPT ![r] =
                       Fail([run[r] EXCEPT
                               !.level_stack = stack,
                               !.parent_sqlite_id = ParentEntry(stack, level).sqlite_id,
                               !.parent_remote_id = ParentEntry(stack, level).remote_id,
                               !.path_titles = PathTitles(stack, level, Cur(r).title),
                               !.log = Append(@, Event("Generate", r, stack, FALSE))],
                            error)]
    /\ UNCHANGED <<file, chapters, messages, remote, runs, clock>>

CreateSqliteChapter(r) ==
    /\ run[r].pc = "generated"
    /\ chapters' = create_sqlite_chapter(chapters, run[r].chat_id, Cur(r).title,
                                         Cur(r).level, run[r].parent_sqlite_id,
                                         run[r].position_counter)
    /\ run' = [run EXCEPT
                 ![r].sqlite_chapter_id = Len(chapters) + 1,
                 ![r].pc = "inserted",
                 ![r].log = Append(@, Event("Insert", r, run[r].level_stack, TRUE))]
    /\ UNCHANGED <<file, messages, remote, runs, clock>>

PublishOk(r) ==
    /\ run[r].pc = "inserted"
    /\ remote' = create_remote_chapter(remote, Cur(r).title, run[r].parent_remote_id,
                                       run[r].position_counter, run[r].chapter_text)
    /\ run' = [run EXCEPT
                 ![r].remote_chapter_id = Len(remote) + 1,
                 ![r].pc = "published",
                 ![r].log = Append(@, Event("Publish", r, run[r].level_stack, TRUE))]
    /\ UNCHANGED <<file, chapters, messages, runs, clock>>

\* Variant: a failed publish takes the local insert back.
PublishFail_rollback(r) ==
    /\ run[r].pc = "inserted"
    /\ chapters' = SubSeq(chapters, 1, Len(chapters) - 1)
    /\ \E error \in PublishErrors :
         \E stored \in StoredOnError(error) :
            /\ remote' = IF stored
                         THEN create_remote_chapter(
                                  remote, Cur(r).title, run[r].parent_remote_id,
                                  run[r].position_counter, run[r].chapter_text)
                         ELSE remote
            /\ run' = [run EXCEPT ![r] =
                         Fail([run[r] EXCEPT
                                 !.log = Append(@, Event("Publish", r,
                                                         run[r].level_stack, FALSE))],
                              error)]
    /\ UNCHANGED <<file, messages, runs, clock>>

\* create_remote_chapter raises; the server may have stored the chapter
\* before, and then its id never reaches the process.
PublishFail(r) ==
    /\ run[r].pc = "inserted"
    /\ \E error \in PublishErrors :
         \E stored \in StoredOnError(error) :
            /\ remote' = IF stored
                         THEN create_remote_chapter(
                                  remote, Cur(r).title, run[r].parent_remote_id,
                                  run[r].position_counter, run[r].chapter_text)
                         ELSE remote
            /\ run' = [run EXCEPT ![r] =
                         Fail([run[r] EXCEPT
                                 !.log = Append(@, Event("Publish", r,
                                                         run[r].level_stack, FALSE))],
                              error)]
    /\ UNCHANGED <<file, chapters, messages, runs, clock>>

\* Steps 4 and 5: the remote id is stored, the in-memory map and the position
\* counter are updated, the new entry goes on the stack.
UpdateRemoteId(r) ==
    /\ run[r].pc = "published"
    /\ chapters' = update_sqlite_chapter_remote_id(chapters, run[r].sqlite_chapter_id,
                                                   run[r].remote_chapter_id)
    /\ LET level == Cur(r).level
           title == Cur(r).title
           info == [id |-> run[r].sqlite_chapter_id,
                    chat_id |-> run[r].chat_id,
                    original_title |-> title,
                    title |-> title,
                    level |-> level,
                    parent_id |-> run[r].parent_sqlite_id,
                    position |-> run[r].position_counter,
                    remote_id |-> run[r].remote_chapter_id]
           new_entry == [title |-> title, sqlite_id |-> run[r].sqlite_chapter_id,
                         remote_id |-> run[r].remote_chapter_id]
           rec == [run[r] EXCEPT
                     !.existing_sqlite_chapters = ExtendExisting(@, title, info),
                     !.position_counter = @ + 1]
       IN  run' = [run EXCEPT ![r] =
                     IF CanSetLevel(run[r].level_stack, level)
                     THEN [rec EXCEPT
                             !.level_stack = SetLevel(run[r].level_stack, level, new_entry),
                             !.pc = "stored"]
                     ELSE Fail(rec, "IndexError")]
    /\ UNCHANGED <<file, messages, remote, runs, clock>>

\* Step 6, first call: the title is saved and committed.
SaveUserMessage(r) ==
    /\ run[r].pc = "stored"
    /\ messages' = save_sqlite_message(messages, run[r].chat_id,
                                       run[r].sqlite_chapter_id, "user", Cur(r).title)
    /\ run' = [run EXCEPT ![r].pc = "saved_user"]
    /\ UNCHANGED <<file, chapters, remote, runs, clock>>

\* Step 6, second call: the text is saved; the loop goes to the next entry.
SaveAssistantMessage(r) ==
    /\ run[r].pc = "saved_user"
    /\ Encodable(run[r].chapter_text)
    /\ messages' = save_sqlite_message(messages, run[r].chat_id,
                                       run[r].sqlite_chapter_id, "assistant",
                                       run[r].chapter_text)
    /\ run' = [run EXCEPT ![r].pc = "loop", ![r].i = @ + 1]
    /\ UNCHANGED <<file, chapters, remote, runs, clock>>

\* Step 6, second call: sqlite3 cannot encode the text and raises.
SaveAssistantFail(r) ==
    /\ run[r].pc = "saved_user"
    /\ ~Encodable(run[r].chapter_text)
    /\ run' = [run EXCEPT ![r] = Fail(run[r], "UnicodeEncodeError")]
    /\ UNCHANGED <<file, chapters, messages, remote, runs, clock>>

\* The for loop is exhausted: the process ends normally.
Finish(r) ==
    /\ run[r].pc = "loop"
    /\ run[r].i > Len(run[r].outline_list)
    /\ run' = [run EXCEPT ![r].pc = "done"]
    /\ UNCHANGED <<file, chapters, messages, remote, runs, clock>>

----------------------------------------------------------------------------
(* Outline files *)

Hashes(n) == [k \in 1..n |-> Marker]

\* f'{"#" * (level + 1)} {title}'
Render(level, title) == Hashes(level + 1) \o <<32>> \o title

\* "a", "b"
Titles == {<<97>>, <<98>>}

\* " "
BlankLine == <<32>>

\* "a#"
BadLine == <<97, 35>>

Lines ==
    {Render(level, title) : level \in 0..(MaxLevel + 1), title \in Titles}
        \cup {BlankLine, BadLine}

EnumeratedFiles == UNION {[1..n -> Lines] : n \in 0..MaxLines}

\* # A / ## A1 / ## A2 / # B / ## B1 ("A" is 65, "B" 66, "1" 49, "2" 50)
SiblingsFile ==
    << Render(0, <<65>>), Render(1, <<65, 49>>), Render(1, <<65, 50>>),
       Render(0, <<66>>), Render(1, <<66, 49>>) >>

\* # A / ### A11
DepthSkipFile == << Render(0, <<65>>), Render(2, <<65, 49, 49>>) >>

\* A three-level chain with an untitled line and a blank one.
ChainFile ==
    << Render(0, <<65>>), BlankLine, Render(1, <<66>>), Render(2, <<>>),
       Render(1, <<67>>) >>

\* # a / # a / ## b: a title that occurs twice, with a child under the second.
DuplicateFile == << Render(0, <<97>>), Render(0, <<97>>), Render(1, <<98>>) >>

ExampleFiles == {SiblingsFile, DepthSkipFile, ChainFile, DuplicateFile}

Files == EnumeratedFiles \cup ExampleFiles

----------------------------------------------------------------------------
(* Specification *)

Init ==
    /\ file \in Files
    /\ chapters = <<>>
    /\ messages = <<>>
    /\ remote = <<>>
    /\ run = [r \in Runners |-> IdleRun]
    /\ runs = 0
    /\ clock = 0

Next ==
    \E r \in Sequential :
        \/ Begin(r)
        \/ Parse(r)
        \/ ParseError(r)
        \/ LoadExisting(r)
        \/ GetNextPosition(r)
        \/ SkipChapter(r)
        \/ GenerateOk(r)
        \/ GenerateFail(r)
        \/ CreateSqliteChapter(r)
        \/ PublishOk(r)
        \/ PublishFail(r)
        \/ UpdateRemoteId(r)
        \/ SaveUserMessage(r)
        \/ SaveAssistantMessage(r)
        \/ SaveAssistantFail(r)
        \/ Finish(r)

Spec == Init /\ [][Next]_vars

----------------------------------------------------------------------------
(* The parser alone: every file of short lines over a small alphabet *)

\* "#", " ", "a"
Alphabet == {Marker, 32, 97}

ParseLines == UNION {[1..n -> Alphabet] : n \in 0..MaxLineLen}

\* The files of short lines, and the outline files of the main specification.
InitParse ==
    /\ \/ \E n \in 0..MaxParseLines : file \in [1..n -> ParseLines]
       \/ file \in Files
    /\ chapters = <<>>
    /\ messages = <<>>
    /\ remote = <<>>
    /\ run = [r \in Runners |-> IdleRun]
    /\ runs = 0
    /\ clock = 0

NextParse ==
    \E r \in Sequential :
        \/ Begin(r)
        \/ Parse(r)
        \/ ParseError(r)

SpecParse == InitParse /\ [][NextParse]_vars

----------------------------------------------------------------------------
(* Two processes interleaved on one database and one chapters file *)

\* "# a", "## a", "a#"
ConcLines == {Render(0, <<97>>), Render(1, <<97>>), BadLine}

InitConc ==
    /\ \E n \in 0..MaxConcLines : file \in [1..n -> ConcLines]
    /\ chapters = <<>>
    /\ messages = <<>>
    /\ remote = <<>>
    /\ run = [r \in Runners |-> IdleRun]
    /\ runs = 0
    /\ clock = 0

\* Every statement that reads or writes the database or the remote service is
\* one step; the steps of the two processes interleave freely.
NextConc ==
    \E r \in Runners :
        \/ Begin(r)
        \/ Parse(r)
        \/ ParseError(r)
        \/ LoadExisting(r)
        \/ GetNextPosition(r)
        \/ SkipChapter(r)
        \/ GenerateOk(r)
        \/ GenerateFail(r)
        \/ CreateSqliteChapter(r)
        \/ PublishOk(r)
        \/ PublishFail(r)
        \/ UpdateRemoteId(r)
        \/ SaveUserMessage(r)
        \/ SaveAssistantMessage(r)
        \/ SaveAssistantFail(r)
        \/ Finish(r)

SpecConc == InitConc /\ [][NextConc]_vars

----------------------------------------------------------------------------
(* One run in which neither Generate nor Publish fails *)

\* The answers of the model with which a run over the outline can complete:
\* for each entry a message.content that save_sqlite_message can store.
StorableAnswers(outline_list) ==
    [DOMAIN outline_list ->
        {c \in ModelOutputs : Encodable(generate_chapter_text(c))}]

\* The main loop from entry i on, applied to w = [chapters, remote, messages,
\* existing_sqlite_chapters, position_counter, level_stack, chat_id];
\* contents[i] is the model's answer for entry i, asked for only when the
\* title is new. It stops where the stack assignment raises IndexError.
RECURSIVE LoopFrom(_, _, _, _)
LoopFrom(outline_list, contents, i, w) ==
    IF i > Len(outline_list) THEN w
    ELSE
        LET level == outline_list[i].level
            title == outline_list[i].title
            stack == PopToLevel(w.level_stack, level)
            parent == ParentEntry(stack, level)
        IN  IF title \in DOMAIN w.existing_sqlite_chapters
            THEN IF CanSetLevel(stack, level)
                 THEN LoopFrom(outline_list, contents, i + 1,
                        [w EXCEPT !.level_stack =
                            SetLevel(stack, level,
                                ExistingEntry(title, w.existing_sqlite_chapters[title]))])
                 ELSE w
            ELSE
                LET text == generate_chapter_text(contents[i])
                    sqlite_id == Len(w.chapters) + 1
                    remote_id == Len(w.remote) + 1
                    inserted == create_sqlite_chapter(w.chapters, w.chat_id, title, level,
                                                      parent.sqlite_id, w.position_counter)
                    info == [id |-> sqlite_id, chat_id |-> w.chat_id,
                             original_title |-> title, title |-> title,
                             level |-> level, parent_id |-> parent.sqlite_id,
                             position |-> w.position_counter, remote_id |-> remote_id]
                    w2 == [w EXCEPT
                             !.chapters = update_sqlite_chapter_remote_id(
                                              inserted, sqlite_id, remote_id),
                             !.remote = create_remote_chapter(
                                            w.remote, title, parent.remote_id,
                                            w.position_counter, text),
                             !.existing_sqlite_chapters = ExtendExisting(@, title, info),
                             !.position_counter = @ + 1]
                IN  IF CanSetLevel(stack, level)
                    THEN LoopFrom(outline_list, contents, i + 1,
                           [w2 EXCEPT
                              !.level_stack =
                                  SetLevel(stack, level,
                                      [title |-> title, sqlite_id |-> sqlite_id,
                                       remote_id |-> remote_id]),
                              !.messages =
                                  save_sqlite_message(
                                      save_sqlite_message(@, w.chat_id, sqlite_id,
                                                          "user", title),
                                      w.chat_id, sqlite_id, "assistant", text)])
                    ELSE w2

\* The stores after one uninterrupted run over the outline, from the stores
\* chs, rem and msgs, by a process that read chat_id from the clock, with the
\* model answering contents.
UninterruptedRun(outline_list, contents, chat_id, chs, rem, msgs) ==
    LoopFrom(outline_list, contents, 1,
             [chapters |-> chs, remote |-> rem, messages |-> msgs,
              existing_sqlite_chapters |-> get_existing_sqlite_chapters(chs),
              position_counter |-> get_next_sqlite_position_start(chs),
              level_stack |-> <<>>, chat_id |-> chat_id])

----------------------------------------------------------------------------
(* Vocabulary of the properties *)

\* First entry at depth 0, each entry at most one deeper than the one before.
WellFormed(o) ==
    /\ o # <<>> => o[1].level = 0
    /\ \A i \in 2..Len(o) : o[i].level <= o[i - 1].level + 1

DistinctTitles(o) ==
    \A i, j \in DOMAIN o : o[i].title = o[j].title => i = j

\* Entry i has depth d > 0 and the stack has no slot d - 1 when it arrives.
DepthSkip(o, i) ==
    /\ o[i].level > 0
    /\ i = 1 \/ o[i].level > o[i - 1].level + 1

\* The nearest preceding entry of depth d - 1 (0: none).
NearestPrev(o, i) ==
    LET S == {j \in 1..(i - 1) : o[j].level = o[i].level - 1}
    IN  IF S = {} THEN 0 ELSE Max(S)

\* The entry whose node is the parent of entry i: the nearest preceding entry
\* of depth d - 1 with no shallower entry in between (0: none).
ParentIndex(o, i) ==
    LET j == NearestPrev(o, i)
    IN  IF j # 0 /\ \A m \in (j + 1)..(i - 1) : o[m].level >= o[i].level
        THEN j ELSE 0

\* The part of a line between its first and its last character that is not
\* whitespace.
Trimmed(s) ==
    LET S == {k \in DOMAIN s : s[k] \notin Whitespace}
    IN  IF S = {} THEN <<>>
        ELSE SubSeq(s, CHOOSE k \in S : \A m \in S : k <= m, Max(S))

\* The lines of f that are not blank and do not start with the marker.
BadLines(f) ==
    {k \in DOMAIN f : Trimmed(f[k]) # <<>> /\ Trimmed(f[k])[1] # Marker}

\* The lines of f that are not blank.
NonBlank(f) == {k \in DOMAIN f : Trimmed(f[k]) # <<>>}

\* The j-th smallest element of a set of numbers.
Nth(S, j) == CHOOSE k \in S : Cardinality({m \in S : m < k}) = j - 1

\* The number of marker characters a line starts with.
LeadingMarkers(s) ==
    CHOOSE n \in 0..Len(s) :
        /\ \A k \in 1..n : s[k] = Marker
        /\ n = Len(s) \/ s[n + 1] # Marker

\* The entry of run r whose processing has just ended, skipped or
\* materialized (0: none, or a later entry has begun).
Processed(r) ==
    IF run[r].pc \in {"loop", "done"} THEN run[r].i - 1
    ELSE IF run[r].pc \in {"stored", "saved_user"} THEN run[r].i
    ELSE 0

\* The entries of depth L among the first n of outline o.
SeenAtDepth(o, n, L) == {m \in 1..n : o[m].level = L}

\* Entry i of outline o repeats the title of an earlier entry.
LaterOccurrence(o, i) == \E m \in 1..(i - 1) : o[m].title = o[i].title

\* The events of run r of one kind.
EventsOf(r, op) == {k \in DOMAIN run[r].log : run[r].log[k].op = op}

\* Run r has read the ledger (line 300 is behind it).
HasLoaded(r) ==
    /\ run[r].pc \notin {"idle", "started", "parsed"}
    /\ ~(run[r].pc = "failed" /\ run[r].log = <<>>)

\* The last event of run r is a failed call of the operation op.
FailedAt(rec, op) ==
    /\ rec.pc = "failed"
    /\ rec.log # <<>>
    /\ rec.log[Len(rec.log)].op = op
    /\ ~rec.log[Len(rec.log)].ok

\* The ledger rows of a title.
RowsOf(title) == {k \in DOMAIN chapters : chapters[k].original_title = title}

Materializing == {"Generate", "Insert", "Publish"}

Events(r) == {run[r].log[k] : k \in DOMAIN run[r].log}

\* The tree the two stores hold, by title.
Tree(chs, rem) ==
    {[title |-> chs[k].original_title,
      depth |-> chs[k].level,
      has_parent |-> chs[k].parent_id # None,
      parent |-> IF chs[k].parent_id \in DOMAIN chs
                 THEN chs[chs[k].parent_id].original_title ELSE <<>>,
      has_remote |-> chs[k].remote_id # None,
      remote_has_parent |-> /\ chs[k].remote_id \in DOMAIN rem
                            /\ rem[chs[k].remote_id].parent_id # None,
      remote_parent |-> IF /\ chs[k].remote_id \in DOMAIN rem
                           /\ rem[chs[k].remote_id].parent_id \in DOMAIN rem
                        THEN rem[rem[chs[k].remote_id].parent_id].title
                        ELSE <<>>] : k \in DOMAIN chs}

----------------------------------------------------------------------------
(* Properties *)

\* C1: whenever a run over the outline completes, after however many runs
\* that Generate or Publish aborted, the ledger and the remote store hold the
\* tree that one uninterrupted run from the same starting (empty) ledger
\* leaves, whatever the model answers in it: the same titles, each with the same depth, ledger parent and
\* remote parent, and a non-null remote id.
C1_ResumeConverges ==
    \A r \in Runners :
        run[r].pc = "done" =>
            \A contents \in StorableAnswers(run[r].outline_list) :
                LET w == UninterruptedRun(run[r].outline_list, contents,
                                          run[r].chat_id, <<>>, <<>>, <<>>)
                IN  /\ Tree(chapters, remote) = Tree(w.chapters, w.remote)
                    /\ \A k \in DOMAIN chapters : chapters[k].remote_id # None

\* C2: a run started after a completed run calls neither Generate nor
\* Publish, inserts no node and leaves the ledger node count as it found it.
C2_IdempotentResume ==
    \A r \in Runners :
        run[r].prev = "done" =>
            /\ \A e \in Events(r) : e.op \notin Materializing
            /\ HasLoaded(r) => Len(chapters) = run[r].start_len
            /\ run[r].pc # "failed"

C2_Witness ==
    \E r \in Runners :
        /\ run[r].prev = "done"
        /\ run[r].pc = "done"
        /\ Len(run[r].log) >= 2
        /\ Len(chapters) >= 2

\* C3: the ledger holds at most one node per title.
C3_KeyUniqueness ==
    \A j, k \in DOMAIN chapters :
        chapters[j].original_title = chapters[k].original_title => j = k

\* The title "a" of the duplicate example: inserted and met again by a run
\* that was aborted at "b", then met twice by the run that completed.
C3_Witness ==
    \E r \in Runners :
        /\ file = DuplicateFile
        /\ run[r].pc = "done"
        /\ run[r].start_len = 1
        /\ Len(chapters) = 2
        /\ Cardinality({k \in EventsOf(r, "Skip") :
                           run[r].log[k].title = <<97>>}) = 2

\* C4: every ledger node of depth > 0 has as parent a ledger node of depth
\* one less, and every node of depth 0 has no parent.
C4_DepthParentConsistency ==
    \A k \in DOMAIN chapters :
        IF chapters[k].level = 0 THEN chapters[k].parent_id = None
        ELSE /\ chapters[k].parent_id \in DOMAIN chapters
             /\ chapters[chapters[k].parent_id].level = chapters[k].level - 1

\* C5: Publish is never called with parent_remote_id none for an entry of
\* depth > 0 whose parent entry is on the stack, whether the parent was
\* materialized in this run or loaded from the ledger.
C5_PublishHasRemoteParent ==
    \A r \in Runners :
        \A e \in Events(r) :
            (/\ e.op = "Publish"
             /\ e.level > 0
             /\ ParentIndex(run[r].outline_list, e.i) # 0) =>
                e.parent_remote_id # None

\* C6: a step that inserts a node gives it a position greater than every
\* position in the ledger, and no step changes the position of a node.
C6_PositionMonotonic ==
    [][\A k \in DOMAIN chapters' :
          IF k \in DOMAIN chapters
          THEN chapters'[k].position = chapters[k].position
          ELSE \A j \in DOMAIN chapters :
                  chapters'[k].position > chapters[j].position]_vars

\* Nodes inserted by two runs, the later after an aborted one.
C6_Witness ==
    /\ \E j, k \in DOMAIN chapters : chapters[j].chat_id < chapters[k].chat_id
    /\ \E k \in DOMAIN chapters : chapters[k].remote_id = None
    /\ Len(chapters) >= 3

\* C7: for a well-formed outline with distinct titles, a node of depth 0 has
\* no parent and a node of depth d > 0 has as parent_local_id the local id of
\* the nearest preceding entry of depth d - 1.
C7_TreeReconstruction ==
    \A r \in Runners :
        LET o == run[r].outline_list
        IN  (/\ run[r].pc \notin {"idle", "started"}
             /\ WellFormed(o)
             /\ DistinctTitles(o)) =>
                \A k \in DOMAIN chapters :
                    \E i \in DOMAIN o :
                        /\ o[i].title = chapters[k].original_title
                        /\ o[i].level = chapters[k].level
                        /\ IF o[i].level = 0 THEN chapters[k].parent_id = None
                           ELSE /\ NearestPrev(o, i) # 0
                                /\ chapters[k].parent_id \in
                                       RowsOf(o[NearestPrev(o, i)].title)

\* # A / ## A1 / ## A2 / # B / ## B1 fully materialized: A1 and A2 under A,
\* B1 under B.
C7_Witness ==
    /\ file = SiblingsFile
    /\ Len(chapters) = 5
    /\ chapters[2].parent_id = 1
    /\ chapters[3].parent_id = 1
    /\ chapters[4].parent_id = None
    /\ chapters[5].parent_id = 4

\* C8: a new entry whose parent entry was skipped in this run, its node being
\* of an earlier run, is inserted with that node's local id and published
\* with that node's remote id as the ledger records it.
C8_LinkageAcrossRuns ==
    \A r \in Runners :
        \A e \in Events(r) :
            LET j == ParentIndex(run[r].outline_list, e.i)
            IN  (/\ e.op \in {"Insert", "Publish"}
                 /\ e.level > 0
                 /\ j # 0
                 /\ \E f \in Events(r) : f.op = "Skip" /\ f.i = j
                 /\ \E k \in RowsOf(run[r].outline_list[j].title) :
                       k <= run[r].start_len) =>
                    \E k \in RowsOf(run[r].outline_list[j].title) :
                        /\ e.parent_sqlite_id = chapters[k].id
                        /\ e.parent_remote_id = chapters[k].remote_id

\* A child published in a later run under a parent that an earlier run
\* published.
C8_Witness ==
    \E r \in Runners :
        \E e \in Events(r) :
            LET j == ParentIndex(run[r].outline_list, e.i)
            IN  /\ e.op = "Publish" /\ e.ok
                /\ e.level > 0
                /\ j # 0
                /\ \E f \in Events(r) : f.op = "Skip" /\ f.i = j
                /\ \E k \in RowsOf(run[r].outline_list[j].title) :
                      /\ k <= run[r].start_len
                      /\ chapters[k].remote_id # None
                      /\ e.parent_remote_id = chapters[k].remote_id
                      /\ e.parent_sqlite_id = k

\* C9: an entry of depth d > 0 that arrives while the stack has no slot d - 1
\* ends the run with a hierarchy violation, and no Generate call, ledger
\* insert or Publish call happens for it.
C9_DepthSkipFails ==
    \A r \in Runners :
        \A i \in DOMAIN run[r].outline_list :
            DepthSkip(run[r].outline_list, i) =>
                /\ \A e \in Events(r) : e.i = i => e.op \notin Materializing
                /\ (run[r].pc = "failed" /\ run[r].i = i) =>
                       run[r].error = "HierarchyViolationError"
                /\ run[r].i <= i

\* C10: when Publish fails the run is aborted at that entry, nothing of a
\* later entry has happened, and the node inserted for the entry is in the
\* ledger with remote_id null.
C10_PublishFailureKeepsNode ==
    \A r \in Runners :
        FailedAt(run[r], "Publish") =>
            /\ run[r].error \in PublishErrors
            /\ run[r].log[Len(run[r].log)].i = run[r].i
            /\ \A e \in Events(r) : e.i <= run[r].i
            /\ run[r].sqlite_chapter_id \in DOMAIN chapters
            /\ chapters[run[r].sqlite_chapter_id].original_title = Cur(r).title
            /\ chapters[run[r].sqlite_chapter_id].remote_id = None

\* Publish failed for an entry that has later entries, after another node was
\* materialized.
C10_Witness ==
    \E r \in Runners :
        /\ FailedAt(run[r], "Publish")
        /\ run[r].i < Len(run[r].outline_list)
        /\ Len(chapters) >= 2
        /\ chapters[Len(chapters)].remote_id = None


\* C11: the step in which Generate fails for an entry aborts the run and
\* leaves the ledger, the audit log, the remote store and the next position
\* as they were when the entry was reached; no ledger node and no remote node
\* of the entry's title exists.
C11_GenerateFailureWritesNothing ==
    [][\A r \in Runners :
          (run[r].pc = "loop" /\ FailedAt(run'[r], "Generate")) =>
              /\ run'[r].error \in GenerateErrors
              /\ chapters' = chapters
              /\ messages' = messages
              /\ remote' = remote
              /\ run'[r].position_counter = run[r].position_counter
              /\ run'[r].i = run[r].i
              /\ \A k \in DOMAIN chapters' :
                    chapters'[k].original_title # Cur(r).title
              /\ \A k \in DOMAIN remote' : remote'[k].title # Cur(r).title]_vars

\* Generate failed for a later entry of a run that had materialized a node.
C11_Witness ==
    \E r \in Runners :
        /\ FailedAt(run[r], "Generate")
        /\ run[r].i >= 2
        /\ \E e \in Events(r) : e.op = "Publish" /\ e.ok
        /\ Len(chapters) >= 1


\* C12: the step that handles an entry whose title is in the ledger view,
\* whatever its remote_id, calls neither Generate nor Publish, writes nothing
\* to the ledger, the audit log or the remote store and keeps the next
\* position and the ledger view; it only puts the existing node in stack slot
\* depth.  A node of an earlier run with remote_id null keeps it in every step.
C12_SkipHasNoSideEffects ==
    [][/\ \A r \in Runners :
            (InLoop(r) /\ Known(r) /\ run'[r] # run[r]) =>
                LET level == Cur(r).level
                    existing == run[r].existing_sqlite_chapters[Cur(r).title]
                IN  /\ chapters' = chapters
                    /\ messages' = messages
                    /\ remote' = remote
                    /\ run'[r].position_counter = run[r].position_counter
                    /\ run'[r].existing_sqlite_chapters =
                           run[r].existing_sqlite_chapters
                    /\ Len(run'[r].log) = Len(run[r].log) + 1
                    /\ run'[r].log[Len(run'[r].log)].op = "Skip"
                    /\ run'[r].pc # "failed" =>
                           /\ run'[r].i = run[r].i + 1
                           /\ Len(run'[r].level_stack) = level + 1
                           /\ run'[r].level_stack[level + 1] =
                                  [title |-> Cur(r).title,
                                   sqlite_id |-> existing.id,
                                   remote_id |-> existing.remote_id]
                           /\ \A L \in 1..level :
                                  run'[r].level_stack[L] = run[r].level_stack[L]
       /\ \A k \in DOMAIN chapters :
            (/\ chapters[k].remote_id = None
             /\ \A r \in Runners :
                   ~(run[r].pc = "published" /\ run[r].sqlite_chapter_id = k)) =>
                chapters'[k].remote_id = None]_vars

\* A later run has skipped a node that an aborted run left with remote_id
\* null, and has completed.
C12_Witness ==
    \E r \in Runners :
        /\ run[r].pc = "done"
        /\ \E e \in Events(r) :
              /\ e.op = "Skip"
              /\ \E k \in RowsOf(e.title) :
                    /\ chapters[k].remote_id = None
                    /\ k <= run[r].start_len
        /\ \E e \in Events(r) : e.op = "Publish" /\ e.ok


\* C13: when a non-blank line of the outline file does not start with the
\* marker, every run fails with the malformed-outline error (ValueError)
\* carrying the first such line, and nothing is created: no Generate call,
\* no ledger insert, no Publish call, no audit entry, also when well-formed
\* lines precede the bad one.
C13_BadMarkerFailsFirst ==
    BadLines(file) # {} =>
        /\ chapters = <<>>
        /\ messages = <<>>
        /\ remote = <<>>
        /\ \A r \in Runners :
              /\ run[r].pc \in {"idle", "started", "failed"}
              /\ run[r].pc = "failed" =>
                  /\ run[r].error = "ValueError"
                  /\ run[r].log = <<>>
                  /\ run[r].bad_line =
                         Trimmed(file[CHOOSE k \in BadLines(file) :
                                         \A m \in BadLines(file) : k <= m])

\* A run has failed on a file whose bad line follows a well-formed line.
C13_Witness ==
    \E r \in Runners :
        /\ run[r].pc = "failed"
        /\ run[r].error = "ValueError"
        /\ Len(file) >= 2
        /\ 1 \notin BadLines(file)
        /\ Trimmed(file[1]) # <<>>
        /\ 2 \in BadLines(file)


\* C14: for a file whose non-blank lines all start with the marker (the other
\* files are the case of C13) the parser yields one entry per non-blank line,
\* in file order: a line with k >= 1 leading markers yields depth k - 1 and
\* as title the rest of the line without its surrounding whitespace, which
\* may be empty; blank lines yield nothing.
C14_ParserResult ==
    \A r \in Runners :
        (run[r].pc \notin {"idle", "started"} /\ BadLines(file) = {}) =>
            /\ run[r].pc # "failed"
            /\ Len(run[r].outline_list) = Cardinality(NonBlank(file))
            /\ \A j \in DOMAIN run[r].outline_list :
                  LET line == Trimmed(file[Nth(NonBlank(file), j)])
                      k == LeadingMarkers(line)
                  IN  /\ k >= 1
                      /\ run[r].outline_list[j].level = k - 1
                      /\ run[r].outline_list[j].title =
                             Trimmed(SubSeq(line, k + 1, Len(line)))

\* The chain example: its blank line yields nothing, its line "### " yields
\* depth 2 with the empty title.
C14_Witness ==
    \E r \in Runners :
        /\ run[r].pc = "parsed"
        /\ file = ChainFile
        /\ run[r].outline_list =
               << [level |-> 0, title |-> <<65>>], [level |-> 1, title |-> <<66>>],
                  [level |-> 2, title |-> <<>>], [level |-> 1, title |-> <<67>>] >>


\* C15: Generate fails when the model output is empty, so no run goes on to
\* the ledger insert or to Publish with an empty text, and no remote node has
\* empty content.
C15_EmptyOutputFails ==
    /\ \A r \in Runners :
          run[r].pc \in {"generated", "inserted", "published", "stored", "saved_user"} =>
              run[r].chapter_text # <<>>
    /\ \A k \in DOMAIN remote : remote[k].content # <<>>


\* C16: when an entry of depth d has been processed, skipped or materialized,
\* the hierarchy stack has exactly d + 1 elements and, for every L <= d, slot
\* L holds the node of the most recently seen entry of depth L: its title,
\* the id of a ledger row of that title and that row's remote id.
C16_StackInvariant ==
    \A r \in Runners :
        LET o == run[r].outline_list
            n == Processed(r)
            stack == run[r].level_stack
        IN  n >= 1 =>
                /\ Len(stack) = o[n].level + 1
                /\ \A L \in 0..o[n].level :
                      /\ SeenAtDepth(o, n, L) # {}
                      /\ stack[L + 1].title = o[Max(SeenAtDepth(o, n, L))].title
                      /\ stack[L + 1].sqlite_id \in RowsOf(stack[L + 1].title)
                      /\ stack[L + 1].remote_id =
                             chapters[stack[L + 1].sqlite_id].remote_id

\* After "# B" of the siblings example the two slots of A and A2 are cut to
\* the one slot of B.
C16_Witness ==
    \E r \in Runners :
        /\ file = SiblingsFile
        /\ run[r].pc = "loop"
        /\ run[r].i = 5
        /\ Len(run[r].level_stack) = 1
        /\ run[r].level_stack[1].title = <<66>>


\* C17: within one run the events follow the file order, Generate and Publish
\* each happen at most once for an outline entry, a failed call is the last
\* event of its run and leaves the run failed, and a failed run takes no
\* further step: the three stores stay as they are, and its record too until
\* a new process is started.
C17_NoRetryFailFast ==
    [][\A r \in Runners :
          LET log == run'[r].log
          IN  /\ \A a, b \in DOMAIN log :
                    a < b =>
                        /\ log[a].i <= log[b].i
                        /\ (log[a].op = log[b].op /\ log[a].op \in {"Generate", "Publish"})
                              => log[a].i < log[b].i
              /\ \A a \in DOMAIN log :
                    ~log[a].ok => (a = Len(log) /\ run'[r].pc = "failed")
              /\ run[r].pc = "failed" =>
                    /\ chapters' = chapters
                    /\ messages' = messages
                    /\ remote' = remote
                    /\ \/ run'[r] = run[r]
                       \/ run'[r].pc = "started" /\ run'[r].log = <<>>]_vars

\* Publish failed for the second new entry of a run, after the first had been
\* generated, inserted and published.
C17_Witness ==
    \E r \in Runners :
        /\ run[r].pc = "failed"
        /\ run[r].error \in PublishErrors
        /\ Len(run[r].log) = 6
        /\ run[r].log[3].op = "Publish" /\ run[r].log[3].ok
        /\ run[r].log[6].op = "Publish" /\ ~run[r].log[6].ok


\* C18 as stated: with two interleaved runs the ledger never holds two nodes
\* with the same title and no two nodes share a position.
C18_SingleNodePerTitle ==
    \A j, k \in DOMAIN chapters :
        j # k =>
            /\ chapters[j].original_title # chapters[k].original_title
            /\ chapters[j].position # chapters[k].position

\* C19: in sequential runs where only Generate and Publish fail, no two remote
\* nodes have the same title, every remote node has a ledger node of its
\* title and position (the insert precedes the publish), and the id of every
\* remote node is the remote_id of exactly one ledger node, from the step
\* that stores it on.
C19_RemoteStoreConsistent ==
    /\ \A j, k \in DOMAIN remote :
          j # k => remote[j].title # remote[k].title
    /\ \A k \in DOMAIN remote :
          /\ \E j \in RowsOf(remote[k].title) :
                chapters[j].position = remote[k].position
          /\ \/ \E r \in Runners :
                   /\ run[r].pc = "published"
                   /\ run[r].remote_chapter_id = remote[k].id
             \/ Cardinality({j \in DOMAIN chapters :
                                chapters[j].remote_id = remote[k].id}) = 1


\* C20: a later occurrence of a title in the outline is never materialized,
\* only skipped; an entry materialized under a later occurrence has the one
\* ledger node of that title as parent in its events and in its ledger row,
\* and it is published under the remote node of that ledger node: the remote
\* parent of the call is not none and is the remote id the ledger holds for
\* the parent. After a run from an empty ledger that ended without failure
\* the ledger nodes, the Generate calls and the Publish calls each number the
\* distinct titles of the outline.
C20_DuplicateTitles ==
    \A r \in Runners :
        LET o == run[r].outline_list
        IN  /\ \A e \in Events(r) :
                  LaterOccurrence(o, e.i) => e.op = "Skip"
            /\ \A e \in Events(r) :
                  (/\ e.op \in Materializing
                   /\ ParentIndex(o, e.i) # 0
                   /\ LaterOccurrence(o, ParentIndex(o, e.i))) =>
                      /\ RowsOf(o[ParentIndex(o, e.i)].title) = {e.parent_sqlite_id}
                      /\ e.parent_remote_id = chapters[e.parent_sqlite_id].remote_id
                      /\ \A k \in RowsOf(e.title) :
                            chapters[k].parent_id = e.parent_sqlite_id
                      /\ (e.op = "Publish" /\ e.ok) =>
                            /\ e.parent_remote_id # None
                            /\ \A k \in DOMAIN remote :
                                  remote[k].title = e.title =>
                                      remote[k].parent_id = e.parent_remote_id
            /\ (run[r].pc = "done" /\ run[r].start_len = 0) =>
                  LET n == Cardinality({o[i].title : i \in DOMAIN o})
                  IN  /\ Len(chapters) = n
                      /\ Cardinality(EventsOf(r, "Generate")) = n
                      /\ Cardinality(EventsOf(r, "Publish")) = n

====
